---------------------------- MODULE Spec2Model ----------------------------
(***************************************************************************)
(* A model of the gmail-mcp server: the tool handlers of the server entry  *)
(* point and the GmailClient of src/gmail-client.ts.                       *)
(*                                                                         *)
(* Strings are sequences of UTF-16 code units (naturals), as JavaScript    *)
(* strings are; byte buffers are sequences of naturals below 256.          *)
(***************************************************************************)
EXTENDS Integers, Sequences, FiniteSets, TLC

VARIABLES
    \* ---- message composition (GmailClient.sendEmail)
    params,       \* the argument of sendEmail: [to, subject, body, cc, bcc]
    email,        \* messageParts.join('\r\n')
    encodedEmail, \* the raw blob handed to users.messages.send
    sendPc,       \* "idle" | "called" | "sent"
    \* ---- message extraction (GmailClient.getMessageLight)
    payload,      \* message.payload: the MimeNode tree users.messages.get returned
    body,         \* the body of the result
    links,        \* the links of the result
    msgPc,        \* "idle" | "fetched" | "returned"
    \* ---- the server entry point and the AccountManager it holds
    records,        \* the addresses that have an AccountRecord
    defaultAccount, \* the default pointer; NoAccount when unset
    cred,           \* address -> [token, expired]: the stored credential
    revoked,        \* addresses whose refresh token the provider rejects
    refreshLock,    \* address -> the request refreshing it, 0 when free
    refreshCalls,   \* address -> refresh calls made to the provider
    credWrites,     \* address -> refreshed credentials written to the store
    issued,         \* address -> access tokens the provider has issued
    req             \* request -> the tool invocation in flight

composeVars == <<params, email, encodedEmail, sendPc>>
extractVars == <<payload, body, links, msgPc>>
storeVars == <<records, defaultAccount, cred, revoked, refreshLock,
               refreshCalls, credWrites, issued>>
serverVars == <<records, defaultAccount, cred, revoked, refreshLock,
                refreshCalls, credWrites, issued, req>>

vars == <<params, email, encodedEmail, sendPc, payload, body, links, msgPc,
          records, defaultAccount, cred, revoked, refreshLock,
          refreshCalls, credWrites, issued, req>>

(***************************************************************************)
(* Bounds of the model.                                                    *)
(***************************************************************************)
MaxSubjectLen == 2
MaxNodes == 5
MaxParams == 2
MaxRequests == 2

(***************************************************************************)
(* String helpers (JavaScript String / Array methods used by the code).    *)
(***************************************************************************)
\* String.prototype.startsWith
StartsWith(s, p) ==
    /\ Len(s) >= Len(p)
    /\ SubSeq(s, 1, Len(p)) = p

\* whether p occurs in s at position i
MatchAt(s, i, p) ==
    /\ i >= 1
    /\ i + Len(p) - 1 <= Len(s)
    /\ SubSeq(s, i, i + Len(p) - 1) = p

\* the least index >= from at which p occurs in s, 0 when there is none
IndexFrom(s, p, from) ==
    LET hits == {i \in from..(Len(s) - Len(p) + 1) : MatchAt(s, i, p)}
    IN IF hits = {} THEN 0 ELSE CHOOSE i \in hits : \A j \in hits : i <= j

\* the suffix of s that starts at index i
Drop(s, i) == SubSeq(s, i, Len(s))

\* Array.prototype.join
RECURSIVE Join(_, _)
Join(parts, sep) ==
    IF parts = <<>> THEN <<>>
    ELSE IF Len(parts) = 1 THEN parts[1]
    ELSE parts[1] \o sep \o Join(Tail(parts), sep)

\* String.prototype.split on a non-empty separator
RECURSIVE Split(_, _)
Split(s, sep) ==
    LET i == IndexFrom(s, sep, 1) IN
    IF i = 0 THEN <<s>>
    ELSE <<SubSeq(s, 1, i - 1)>> \o Split(Drop(s, i + Len(sep)), sep)

(***************************************************************************)
(* Buffer.from(string, 'utf-8'): UTF-16 code units to UTF-8 bytes.  A      *)
(* surrogate pair is one code point of four bytes; an unpaired surrogate   *)
(* is written as U+FFFD (EF BF BD).                                        *)
(***************************************************************************)
IsHighSurrogate(u) == u >= 55296 /\ u <= 56319
IsLowSurrogate(u) == u >= 56320 /\ u <= 57343

Utf8OfCodePoint(cp) ==
    IF cp < 128 THEN <<cp>>
    ELSE IF cp < 2048 THEN <<192 + (cp \div 64), 128 + (cp % 64)>>
    ELSE IF cp < 65536 THEN
        <<224 + (cp \div 4096), 128 + ((cp \div 64) % 64), 128 + (cp % 64)>>
    ELSE <<240 + (cp \div 262144), 128 + ((cp \div 4096) % 64),
           128 + ((cp \div 64) % 64), 128 + (cp % 64)>>

\* the bytes of one code unit that is no half of a surrogate pair
Utf8OfUnit(u) ==
    IF IsHighSurrogate(u) \/ IsLowSurrogate(u) THEN <<239, 191, 189>>
    ELSE Utf8OfCodePoint(u)

\* The string is encoded left to right; the recursion halves it (never between
\* the two halves of a surrogate pair), which is the same concatenation.
RECURSIVE Utf8Encode(_)
Utf8Encode(s) ==
    IF s = <<>> THEN <<>>
    ELSE IF Len(s) = 1 THEN Utf8OfUnit(s[1])
    ELSE IF Len(s) = 2 /\ IsHighSurrogate(s[1]) /\ IsLowSurrogate(s[2]) THEN
        Utf8OfCodePoint(65536 + (s[1] - 55296) * 1024 + (s[2] - 56320))
    ELSE
        LET m == Len(s) \div 2
            cut == IF IsHighSurrogate(s[m]) /\ IsLowSurrogate(s[m + 1])
                   THEN m + 1 ELSE m
        IN Utf8Encode(SubSeq(s, 1, cut)) \o Utf8Encode(Drop(s, cut + 1))

(***************************************************************************)
(* Buffer.prototype.toString('utf-8'): UTF-8 bytes to UTF-16 code units;   *)
(* a byte that starts no well-formed sequence decodes to U+FFFD.           *)
(***************************************************************************)
IsCont(b) == b >= 128 /\ b <= 191

RECURSIVE Utf8DecodeRun(_)
Utf8DecodeRun(b) ==
    IF b = <<>> THEN <<>>
    ELSE IF b[1] < 128 THEN <<b[1]>> \o Utf8DecodeRun(Tail(b))
    ELSE IF b[1] >= 194 /\ b[1] <= 223 /\ Len(b) >= 2 /\ IsCont(b[2]) THEN
        <<(b[1] - 192) * 64 + (b[2] - 128)>> \o Utf8DecodeRun(Drop(b, 3))
    ELSE IF /\ b[1] >= 224 /\ b[1] <= 239
            /\ Len(b) >= 3 /\ IsCont(b[2]) /\ IsCont(b[3])
            /\ (b[1] - 224) * 4096 + (b[2] - 128) * 64 + (b[3] - 128) >= 2048
            /\ ~IsHighSurrogate((b[1] - 224) * 4096 + (b[2] - 128) * 64 + (b[3] - 128))
            /\ ~IsLowSurrogate((b[1] - 224) * 4096 + (b[2] - 128) * 64 + (b[3] - 128))
    THEN
        <<(b[1] - 224) * 4096 + (b[2] - 128) * 64 + (b[3] - 128)>>
            \o Utf8DecodeRun(Drop(b, 4))
    ELSE IF /\ b[1] >= 240 /\ b[1] <= 244
            /\ Len(b) >= 4 /\ IsCont(b[2]) /\ IsCont(b[3]) /\ IsCont(b[4])
            /\ (b[1] - 240) * 262144 + (b[2] - 128) * 4096
                 + (b[3] - 128) * 64 + (b[4] - 128) >= 65536
            /\ (b[1] - 240) * 262144 + (b[2] - 128) * 4096
                 + (b[3] - 128) * 64 + (b[4] - 128) <= 1114111
    THEN
        LET cp == (b[1] - 240) * 262144 + (b[2] - 128) * 4096
                    + (b[3] - 128) * 64 + (b[4] - 128)
        IN <<55296 + ((cp - 65536) \div 1024), 56320 + ((cp - 65536) % 1024)>>
               \o Utf8DecodeRun(Drop(b, 5))
    ELSE <<65533>> \o Utf8DecodeRun(Tail(b))

\* The buffer is decoded left to right; the recursion halves a long buffer at a
\* byte that is no continuation byte, where a new sequence starts.
RECURSIVE Utf8Decode(_)
Utf8Decode(b) ==
    LET starts == {i \in 2..Len(b) : ~IsCont(b[i])}
        mid == (Len(b) \div 2) + 1
        dist(i) == IF i >= mid THEN i - mid ELSE mid - i
        cut == CHOOSE i \in starts : \A j \in starts : dist(i) <= dist(j)
    IN IF Len(b) <= 8 \/ starts = {} THEN Utf8DecodeRun(b)
       ELSE Utf8Decode(SubSeq(b, 1, cut - 1)) \o Utf8Decode(Drop(b, cut))

(***************************************************************************)
(* Base64 (Buffer.prototype.toString('base64' | 'base64url') and           *)
(* Buffer.from(string, 'base64')).                                         *)
(***************************************************************************)
\* the character of sextet v: A-Z a-z 0-9, then '+' '/' or, URL-safe, '-' '_'
Base64Char(v, urlSafe) ==
    IF v < 26 THEN 65 + v
    ELSE IF v < 52 THEN 97 + (v - 26)
    ELSE IF v < 62 THEN 48 + (v - 52)
    ELSE IF v = 62 THEN (IF urlSafe THEN 45 ELSE 43)
    ELSE (IF urlSafe THEN 95 ELSE 47)

\* the sextet of character c, -1 when c is of neither alphabet
Base64Value(c) ==
    IF c >= 65 /\ c <= 90 THEN c - 65
    ELSE IF c >= 97 /\ c <= 122 THEN c - 97 + 26
    ELSE IF c >= 48 /\ c <= 57 THEN c - 48 + 52
    ELSE IF c = 43 \/ c = 45 THEN 62
    ELSE IF c = 47 \/ c = 95 THEN 63
    ELSE -1

\* one group of at most three bytes; toString('base64') pads with '=',
\* toString('base64url') does not
Base64Group(b, urlSafe) ==
    IF Len(b) = 1 THEN
        <<Base64Char(b[1] \div 4, urlSafe), Base64Char((b[1] % 4) * 16, urlSafe)>>
            \o (IF urlSafe THEN <<>> ELSE <<61, 61>>)
    ELSE IF Len(b) = 2 THEN
        <<Base64Char(b[1] \div 4, urlSafe),
          Base64Char((b[1] % 4) * 16 + (b[2] \div 16), urlSafe),
          Base64Char((b[2] % 16) * 4, urlSafe)>>
            \o (IF urlSafe THEN <<>> ELSE <<61>>)
    ELSE
        <<Base64Char(b[1] \div 4, urlSafe),
          Base64Char((b[1] % 4) * 16 + (b[2] \div 16), urlSafe),
          Base64Char((b[2] % 16) * 4 + (b[3] \div 64), urlSafe),
          Base64Char(b[3] % 64, urlSafe)>>

\* The groups are encoded left to right; the recursion halves the buffer at a
\* multiple of three bytes.
RECURSIVE Base64Encode(_, _)
Base64Encode(b, urlSafe) ==
    IF b = <<>> THEN <<>>
    ELSE IF Len(b) <= 3 THEN Base64Group(b, urlSafe)
    ELSE
        LET cut == 3 * (((Len(b) \div 3) + 1) \div 2)
        IN Base64Encode(SubSeq(b, 1, cut), urlSafe)
               \o Base64Encode(Drop(b, cut + 1), urlSafe)

\* the sextets of the characters before the first '=', others skipped
Base64Sextets(s) ==
    LET stop == IndexFrom(s, <<61>>, 1)
        kept == IF stop = 0 THEN s ELSE SubSeq(s, 1, stop - 1)
        valid == SelectSeq(kept, LAMBDA c : Base64Value(c) >= 0)
    IN [i \in 1..Len(valid) |-> Base64Value(valid[i])]

\* four sextets make three bytes; two or three trailing sextets make one or two
BytesOfQuad(v) ==
    IF Len(v) < 2 THEN <<>>
    ELSE IF Len(v) = 2 THEN <<v[1] * 4 + (v[2] \div 16)>>
    ELSE IF Len(v) = 3 THEN
        <<v[1] * 4 + (v[2] \div 16), (v[2] % 16) * 16 + (v[3] \div 4)>>
    ELSE
        <<v[1] * 4 + (v[2] \div 16), (v[2] % 16) * 16 + (v[3] \div 4),
          (v[3] % 4) * 64 + v[4]>>

RECURSIVE BytesOfSextets(_)
BytesOfSextets(v) ==
    IF Len(v) <= 4 THEN BytesOfQuad(v)
    ELSE
        LET cut == 4 * (((Len(v) \div 4) + 1) \div 2)
        IN BytesOfSextets(SubSeq(v, 1, cut)) \o BytesOfSextets(Drop(v, cut + 1))

\* Buffer.from(s, 'base64')
Base64Decode(s) == BytesOfSextets(Base64Sextets(s))

(***************************************************************************)
(* String literals of gmail-client.ts.                                     *)
(***************************************************************************)
CRLF == <<13, 10>>                                           \* "\r\n"
CommaSpace == <<44, 32>>                                     \* ", "
ToPrefix == <<84, 111, 58, 32>>                              \* "To: "
SubjectPrefix == <<83, 117, 98, 106, 101, 99, 116, 58, 32>>  \* "Subject: "
CcPrefix == <<67, 99, 58, 32>>                               \* "Cc: "
BccPrefix == <<66, 99, 99, 58, 32>>                          \* "Bcc: "
\* "Content-Type: text/plain; charset=utf-8"
ContentTypeLine ==
    <<67, 111, 110, 116, 101, 110, 116, 45, 84, 121, 112, 101, 58, 32,
      116, 101, 120, 116, 47, 112, 108, 97, 105, 110, 59, 32,
      99, 104, 97, 114, 115, 101, 116, 61, 117, 116, 102, 45, 56>>
EncodedWordPrefix == <<61, 63, 85, 84, 70, 45, 56, 63, 66, 63>>  \* "=?UTF-8?B?"
EncodedWordSuffix == <<63, 61>>                                  \* "?="

(***************************************************************************)
(* encodeSubject                                                           *)
(***************************************************************************)
\* /^[\x20-\x7E]*$/.test(subject)
IsPrintableAscii(s) == \A i \in 1..Len(s) : s[i] >= 32 /\ s[i] <= 126

\* encodeSubject with the range written [\x20-\x7F]: DEL passes as printable
encodeSubject_DelPrintable(subject) ==
    IF \A i \in 1..Len(subject) : subject[i] >= 32 /\ subject[i] <= 127
    THEN subject
    ELSE EncodedWordPrefix \o Base64Encode(Utf8Encode(subject), FALSE)
             \o EncodedWordSuffix

encodeSubject(subject) ==
    IF IsPrintableAscii(subject) THEN subject
    ELSE EncodedWordPrefix \o Base64Encode(Utf8Encode(subject), FALSE)
             \o EncodedWordSuffix

(***************************************************************************)
(* GmailClient.sendEmail, up to the transport call.                        *)
(***************************************************************************)
\* messageParts with the guard of the Cc line dropped
messageParts_CcAlways(p) ==
    <<ToPrefix \o Join(p.to, CommaSpace),
      SubjectPrefix \o encodeSubject(p.subject),
      CcPrefix \o Join(p.cc, CommaSpace)>>
    \o (IF Len(p.bcc) > 0 THEN <<BccPrefix \o Join(p.bcc, CommaSpace)>> ELSE <<>>)
    \o <<ContentTypeLine, <<>>, p.body>>

messageParts(p) ==
    <<ToPrefix \o Join(p.to, CommaSpace),
      SubjectPrefix \o encodeSubject(p.subject)>>
    \o (IF Len(p.cc) > 0 THEN <<CcPrefix \o Join(p.cc, CommaSpace)>> ELSE <<>>)
    \o (IF Len(p.bcc) > 0 THEN <<BccPrefix \o Join(p.bcc, CommaSpace)>> ELSE <<>>)
    \o <<ContentTypeLine, <<>>, p.body>>

composeEmail(p) == Join(messageParts(p), CRLF)

sendEmail ==
    /\ sendPc = "called"
    /\ email' = composeEmail(params)
    /\ encodedEmail' = Base64Encode(Utf8Encode(composeEmail(params)), TRUE)
    /\ sendPc' = "sent"
    /\ UNCHANGED <<params, extractVars, serverVars>>

(***************************************************************************)
(* Message extraction: literals of extractPlainTextBody,                   *)
(* extractLinksFromPayload and cleanTrackingUrl.                           *)
(***************************************************************************)
TextPlain == <<116, 101, 120, 116, 47, 112, 108, 97, 105, 110>>       \* "text/plain"
TextHtml == <<116, 101, 120, 116, 47, 104, 116, 109, 108>>            \* "text/html"
MultipartPrefix == <<109, 117, 108, 116, 105, 112, 97, 114, 116, 47>> \* "multipart/"
ScriptOpen == <<60, 115, 99, 114, 105, 112, 116>>                     \* "<script"
ScriptClose == <<60, 47, 115, 99, 114, 105, 112, 116, 62>>            \* "</script>"
StyleOpen == <<60, 115, 116, 121, 108, 101>>                          \* "<style"
StyleClose == <<60, 47, 115, 116, 121, 108, 101, 62>>                 \* "</style>"
EntNbsp == <<38, 110, 98, 115, 112, 59>>                              \* "&nbsp;"
EntAmp == <<38, 97, 109, 112, 59>>                                    \* "&amp;"
EntLt == <<38, 108, 116, 59>>                                         \* "&lt;"
EntGt == <<38, 103, 116, 59>>                                         \* "&gt;"
EntQuot == <<38, 113, 117, 111, 116, 59>>                             \* "&quot;"
EntApos == <<38, 35, 51, 57, 59>>                                     \* "&#39;"
HrefEq == <<104, 114, 101, 102, 61>>                                  \* "href="
MailtoScheme == <<109, 97, 105, 108, 116, 111, 58>>                   \* "mailto:"
JavascriptScheme == <<106, 97, 118, 97, 115, 99, 114, 105, 112, 116, 58>> \* "javascript:"
Hash == <<35>>                                                        \* "#"
HttpScheme == <<104, 116, 116, 112, 58, 47, 47>>                      \* "http://"
HttpsScheme == <<104, 116, 116, 112, 115, 58, 47, 47>>                \* "https://"
\* ['url', 'u', 'redirect', 'destination', 'target', 'link']
RedirectParams ==
    << <<117, 114, 108>>, <<117>>, <<114, 101, 100, 105, 114, 101, 99, 116>>,
       <<100, 101, 115, 116, 105, 110, 97, 116, 105, 111, 110>>,
       <<116, 97, 114, 103, 101, 116>>, <<108, 105, 110, 107>> >>

(***************************************************************************)
(* Regular-expression helpers.                                             *)
(***************************************************************************)
\* the i flag: ASCII letters compare in lower case
LowerUnit(c) == IF c >= 65 /\ c <= 90 THEN c + 32 ELSE c
Lower(s) == [i \in 1..Len(s) |-> LowerUnit(s[i])]

\* \s of a JavaScript regular expression
IsSpace(c) ==
    \/ c \in {9, 10, 11, 12, 13, 32, 160, 5760, 8232, 8233, 8239, 8287, 12288, 65279}
    \/ c >= 8192 /\ c <= 8202

\* the least index >= from whose unit is in set, 0 when there is none
IndexOfAny(s, set, from) ==
    LET hits == {i \in from..Len(s) : s[i] \in set}
    IN IF hits = {} THEN 0 ELSE CHOOSE i \in hits : \A j \in hits : i <= j

\* String.prototype.replace(/pat/g, rep) for a literal pattern
RECURSIVE ReplaceAll(_, _, _)
ReplaceAll(s, pat, rep) ==
    LET i == IndexFrom(s, pat, 1) IN
    IF i = 0 THEN s
    ELSE SubSeq(s, 1, i - 1) \o rep \o ReplaceAll(Drop(s, i + Len(pat)), pat, rep)

\* .replace(/<script[^>]*>[\s\S]*?<\/script>/gi, '') and the same for style:
\* from an opening tag name to the first '>' after it, then lazily to the first
\* closing tag
RECURSIVE RemoveBlocks(_, _, _)
RemoveBlocks(s, open, close) ==
    LET i == IndexFrom(Lower(s), open, 1)
        j == IF i = 0 THEN 0 ELSE IndexFrom(s, <<62>>, i + Len(open))
        k == IF j = 0 THEN 0 ELSE IndexFrom(Lower(s), close, j + 1)
    IN IF k = 0 THEN s
       ELSE SubSeq(s, 1, i - 1) \o RemoveBlocks(Drop(s, k + Len(close)), open, close)

\* .replace(/<[^>]+>/g, ' ')
RECURSIVE StripTags(_)
StripTags(s) ==
    LET i == IndexFrom(s, <<60>>, 1)
        j == IF i = 0 THEN 0 ELSE IndexFrom(s, <<62>>, i + 1)
    IN IF j = 0 THEN s
       ELSE IF j = i + 1 THEN SubSeq(s, 1, i) \o StripTags(Drop(s, i + 1))
       ELSE SubSeq(s, 1, i - 1) \o <<32>> \o StripTags(Drop(s, j + 1))

\* .replace(/\s+/g, ' '): the first unit of every run of white space stays, as
\* a space
CollapseSpace(s) ==
    LET keep == {i \in 1..Len(s) : ~IsSpace(s[i]) \/ i = 1 \/ ~IsSpace(s[i - 1])}
        nth(n) == CHOOSE i \in keep : Cardinality({j \in keep : j <= i}) = n
    IN [n \in 1..Cardinality(keep) |-> IF IsSpace(s[nth(n)]) THEN 32 ELSE s[nth(n)]]

\* String.prototype.trim
Trim(s) ==
    LET inked == {i \in 1..Len(s) : ~IsSpace(s[i])}
    IN IF inked = {} THEN <<>>
       ELSE SubSeq(s, CHOOSE i \in inked : \A j \in inked : i <= j,
                      CHOOSE i \in inked : \A j \in inked : i >= j)

\* the "basic HTML to text conversion" of extractPlainTextBody
HtmlToText(html) ==
    LET noScript == RemoveBlocks(html, ScriptOpen, ScriptClose)
        noStyle == RemoveBlocks(noScript, StyleOpen, StyleClose)
        noTags == StripTags(noStyle)
        e1 == ReplaceAll(noTags, EntNbsp, <<32>>)
        e2 == ReplaceAll(e1, EntAmp, <<38>>)
        e3 == ReplaceAll(e2, EntLt, <<60>>)
        e4 == ReplaceAll(e3, EntGt, <<62>>)
        e5 == ReplaceAll(e4, EntQuot, <<34>>)
        e6 == ReplaceAll(e5, EntApos, <<39>>)
    IN Trim(CollapseSpace(e6))

(***************************************************************************)
(* MimeNode: [mimeType, data, parts].  data is payload.body?.data, <<>> when *)
(* it is absent or empty (both falsy); parts is payload.parts, <<>> when it *)
(* is absent or empty (no loop runs for either).  [absent |-> TRUE] is a   *)
(* missing payload.                                                        *)
(***************************************************************************)
IsAbsent(node) == "absent" \in DOMAIN node

\* Buffer.from(data, 'base64').toString('utf-8')
DecodeData(data) == Utf8Decode(Base64Decode(data))

IsPlainWithData(node) == node.mimeType = TextPlain /\ node.data # <<>>
IsHtmlWithData(node) == node.mimeType = TextHtml /\ node.data # <<>>
IsMultipart(node) == StartsWith(node.mimeType, MultipartPrefix)

\* the least element of a non-empty set of indexes
Least(S) == CHOOSE i \in S : \A j \in S : i <= j

(***************************************************************************)
(* GmailClient.extractPlainTextBody                                        *)
(***************************************************************************)
RECURSIVE extractPlainTextBody(_)

\* what the first loop returns at a part: its text, or <<>> to go on
PlainOfPart(part) ==
    IF IsPlainWithData(part) THEN DecodeData(part.data)
    ELSE IF IsMultipart(part) THEN extractPlainTextBody(part)
    ELSE <<>>

\* whether the first loop returns at this part
PlainReturnsAt(part) ==
    \/ IsPlainWithData(part)
    \/ IsMultipart(part) /\ extractPlainTextBody(part) # <<>>

extractPlainTextBody(node) ==
    IF IsAbsent(node) THEN <<>>
    ELSE IF IsPlainWithData(node) THEN DecodeData(node.data)
    ELSE
        LET plainAt == {i \in 1..Len(node.parts) : PlainReturnsAt(node.parts[i])}
            htmlAt == {i \in 1..Len(node.parts) : IsHtmlWithData(node.parts[i])}
        IN IF plainAt # {} THEN PlainOfPart(node.parts[Least(plainAt)])
           ELSE IF htmlAt # {}
                THEN HtmlToText(DecodeData(node.parts[Least(htmlAt)].data))
           ELSE <<>>

(***************************************************************************)
(* new URL(url) and URLSearchParams, for a url that starts with http:// or *)
(* https:// (cleanTrackingUrl is called with no other).                    *)
(***************************************************************************)
IsHexDigit(c) ==
    \/ c >= 48 /\ c <= 57
    \/ c >= 65 /\ c <= 70
    \/ c >= 97 /\ c <= 102

HexValue(c) ==
    IF c <= 57 THEN c - 48 ELSE IF c <= 70 THEN c - 55 ELSE c - 87

\* whether s has a well-formed escape %XX at position i
EscapeAt(s, i) ==
    /\ i + 2 <= Len(s)
    /\ s[i] = 37
    /\ IsHexDigit(s[i + 1])
    /\ IsHexDigit(s[i + 2])

EscapeByte(s, i) == HexValue(s[i + 1]) * 16 + HexValue(s[i + 2])

\* The host of a special-scheme URL: the slashes and backslashes that follow the
\* scheme are skipped, and the host runs to the next '/', '\', '?' or '#'.
\* Parsing fails on an empty host and on a forbidden host code point (of
\* those, the space, '<', '>', '^' and '|' are modelled).
UrlHost(url) ==
    LET afterScheme == IF StartsWith(url, HttpsScheme) THEN Len(HttpsScheme) + 1
                       ELSE Len(HttpScheme) + 1
        nonSlash == {i \in afterScheme..Len(url) : url[i] # 47 /\ url[i] # 92}
        start == IF nonSlash = {} THEN Len(url) + 1 ELSE Least(nonSlash)
        stop == IndexOfAny(url, {47, 92, 63, 35}, start)
    IN SubSeq(url, start, IF stop = 0 THEN Len(url) ELSE stop - 1)

UrlParses(url) ==
    /\ UrlHost(url) # <<>>
    /\ \A i \in 1..Len(UrlHost(url)) : UrlHost(url)[i] \notin {32, 60, 62, 94, 124}

\* parsed.search without its '?': from the first '?' to the first '#'
UrlQuery(url) ==
    LET hash == IndexFrom(url, <<35>>, 1)
        noFragment == IF hash = 0 THEN url ELSE SubSeq(url, 1, hash - 1)
        mark == IndexFrom(noFragment, <<63>>, 1)
    IN IF mark = 0 THEN <<>> ELSE Drop(noFragment, mark + 1)

\* application/x-www-form-urlencoded decoding of a name or a value: '+' is a
\* space, a well-formed escape is its byte, anything else stands for itself
RECURSIVE FormBytes(_)
FormBytes(s) ==
    IF s = <<>> THEN <<>>
    ELSE IF s[1] = 43 THEN <<32>> \o FormBytes(Tail(s))
    ELSE IF EscapeAt(s, 1) THEN <<EscapeByte(s, 1)>> \o FormBytes(Drop(s, 4))
    ELSE Utf8OfUnit(s[1]) \o FormBytes(Tail(s))

FormDecode(s) == Utf8Decode(FormBytes(s))

\* the name and the value of one "name=value" of the query
PairName(pair) ==
    LET eq == IndexFrom(pair, <<61>>, 1)
    IN FormDecode(IF eq = 0 THEN pair ELSE SubSeq(pair, 1, eq - 1))

PairValue(pair) ==
    LET eq == IndexFrom(pair, <<61>>, 1)
    IN FormDecode(IF eq = 0 THEN <<>> ELSE Drop(pair, eq + 1))

\* the non-empty "name=value" pairs of the query
QueryPairsOf(query) == SelectSeq(Split(query, <<38>>), LAMBDA pr : pr # <<>>)

\* the first pair of that name among pairs: [found, value]
FirstNamed(pairs, name) ==
    IF \A i \in 1..Len(pairs) : PairName(pairs[i]) # name
    THEN [found |-> FALSE, value |-> <<>>]
    ELSE [found |-> TRUE,
          value |-> PairValue(pairs[Least({i \in 1..Len(pairs) :
                                              PairName(pairs[i]) = name})])]

\* parsed.searchParams.get(name): found is FALSE for null
SearchParamsGet(query, name) == FirstNamed(QueryPairsOf(query), name)

(***************************************************************************)
(* decodeURIComponent: [ok, value]; ok is FALSE when it throws URIError (a *)
(* '%' that starts no escape, or escapes that are no well-formed UTF-8).   *)
(***************************************************************************)
\* the number of units the escapes that start s take up
RECURSIVE EscapeRun(_)
EscapeRun(s) == IF EscapeAt(s, 1) THEN 3 + EscapeRun(Drop(s, 4)) ELSE 0

EscapeRunBytes(run) == [i \in 1..(Len(run) \div 3) |-> EscapeByte(run, 3 * i - 2)]

\* units decoded, then what the rest of the string decodes to
Decoded(ok, units, rest) == [ok |-> ok /\ rest.ok, value |-> units \o rest.value]

\* a run of escapes decodes when its bytes are well-formed UTF-8
DecodedBytes(bytes, rest) ==
    Decoded(Utf8Encode(Utf8Decode(bytes)) = bytes, Utf8Decode(bytes), rest)

RECURSIVE decodeURIComponent(_)

\* s starts with '%': n is the length of the run of escapes there
DecodedRun(s, n) ==
    IF n = 0 THEN [ok |-> FALSE, value |-> <<>>]
    ELSE DecodedBytes(EscapeRunBytes(SubSeq(s, 1, n)),
                      decodeURIComponent(Drop(s, n + 1)))

decodeURIComponent(s) ==
    IF s = <<>> THEN [ok |-> TRUE, value |-> <<>>]
    ELSE IF s[1] # 37 THEN Decoded(TRUE, <<s[1]>>, decodeURIComponent(Tail(s)))
    ELSE DecodedRun(s, EscapeRun(s))

(***************************************************************************)
(* GmailClient.cleanTrackingUrl: [ok, value]; ok is FALSE for null, which  *)
(* is what the catch block returns.                                        *)
(***************************************************************************)
\* destUrl && (destUrl.startsWith('http://') || destUrl.startsWith('https://'))
IsWebValue(destUrl) ==
    /\ destUrl.found
    /\ destUrl.value # <<>>
    /\ StartsWith(destUrl.value, HttpScheme) \/ StartsWith(destUrl.value, HttpsScheme)

\* whether the loop over the parameter names returns at name
IsDestination(url, name) == IsWebValue(SearchParamsGet(UrlQuery(url), name))

\* the loop over the parameter names: the first that is a destination
\* returns; with none, the url itself is returned
DestinationOf(url) ==
    IF \A i \in 1..Len(RedirectParams) : ~IsDestination(url, RedirectParams[i])
    THEN [ok |-> TRUE, value |-> url]
    ELSE decodeURIComponent(
             SearchParamsGet(UrlQuery(url),
                 RedirectParams[Least({i \in 1..Len(RedirectParams) :
                                          IsDestination(url, RedirectParams[i])})]).value)

cleanTrackingUrl(url) ==
    IF ~UrlParses(url) THEN [ok |-> FALSE, value |-> <<>>]
    ELSE DestinationOf(url)

(***************************************************************************)
(* GmailClient.extractLinksFromPayload.  links is a Set: a sequence        *)
(* without duplicates, in insertion order.                                 *)
(***************************************************************************)
\* links.push in place of links.add
SetAdd_Push(set, x) == Append(set, x)

\* Set.prototype.add: an element already in the set is not added again
SetAdd(set, x) ==
    IF \E i \in 1..Len(set) : set[i] = x THEN set ELSE Append(set, x)

RECURSIVE SetAddAll(_, _)
SetAddAll(set, xs) ==
    IF xs = <<>> THEN set ELSE SetAddAll(SetAdd(set, Head(xs)), Tail(xs))

\* the captures of /href=["']([^"']+)["']/gi in html, in order
RECURSIVE HrefsFrom(_, _)
HrefsFrom(html, from) ==
    LET i == IndexFrom(Lower(html), HrefEq, from)
        q == i + Len(HrefEq)
        close == IndexOfAny(html, {34, 39}, q + 1)
    IN IF i = 0 THEN <<>>
       ELSE IF q > Len(html) \/ html[q] \notin {34, 39} THEN HrefsFrom(html, i + 1)
       ELSE IF close = 0 THEN <<>>
       ELSE IF close = q + 1 THEN HrefsFrom(html, i + 1)
       ELSE <<SubSeq(html, q + 1, close - 1)>> \o HrefsFrom(html, close + 1)

\* the filter of extractFromHtml
IsWebLink(url) ==
    /\ url # <<>>
    /\ ~StartsWith(url, MailtoScheme)
    /\ ~StartsWith(url, JavascriptScheme)
    /\ ~StartsWith(url, Hash)
    /\ StartsWith(url, HttpScheme) \/ StartsWith(url, HttpsScheme)

\* if (cleanUrl) links.add(cleanUrl)
AddClean(set, cleanUrl) ==
    IF cleanUrl.ok /\ cleanUrl.value # <<>> THEN SetAdd(set, cleanUrl.value)
    ELSE set

\* one round of the while loop of extractFromHtml
AddHref(set, url) ==
    IF IsWebLink(url) THEN AddClean(set, cleanTrackingUrl(url)) ELSE set

RECURSIVE AddHrefs(_, _)
AddHrefs(set, hrefs) ==
    IF hrefs = <<>> THEN set
    ELSE AddHrefs(AddHref(set, Head(hrefs)), Tail(hrefs))

extractFromHtml(set, html) == AddHrefs(set, HrefsFrom(html, 1))

\* a node that is HTML adds the links of its own text
OwnLinks(set, node) ==
    IF IsHtmlWithData(node) THEN extractFromHtml(set, DecodeData(node.data))
    ELSE set

RECURSIVE extractLinksFromPayload(_)

\* a part that is multipart adds the links found inside it
NestedLinks(set, part) ==
    IF IsMultipart(part) THEN SetAddAll(set, extractLinksFromPayload(part))
    ELSE set

\* one round of the loop over payload.parts
LinksOfPart(set, part) == NestedLinks(OwnLinks(set, part), part)

RECURSIVE LinksOfParts(_, _)
LinksOfParts(set, parts) ==
    IF parts = <<>> THEN set
    ELSE LinksOfParts(LinksOfPart(set, Head(parts)), Tail(parts))

extractLinksFromPayload(node) ==
    IF IsAbsent(node) THEN <<>>
    ELSE LinksOfParts(OwnLinks(<<>>, node), node.parts)

(***************************************************************************)
(* GmailClient.getMessageLight, from the transport's answer on.            *)
(***************************************************************************)
getMessageLight ==
    /\ msgPc = "fetched"
    /\ links' = extractLinksFromPayload(payload)
    /\ body' = extractPlainTextBody(payload)
    /\ msgPc' = "returned"
    /\ UNCHANGED <<payload, composeVars, serverVars>>

(***************************************************************************)
(* The server entry point.  A request is one tool invocation; its handler  *)
(* runs until it awaits, and other handlers run meanwhile.  The            *)
(* AccountManager is ./account-manager.js, which is not part of the        *)
(* sources at hand: its operations follow the store contract (add /        *)
(* remove / setDefault / resolve) of the design document.                  *)
(***************************************************************************)
\* an absent account argument and an unset default pointer are both falsy
NoAccount == ""

Addresses == {"a@x.io", "b@y.io"}

Requests == 1..MaxRequests

NoCredential == [token |-> 0, expired |-> FALSE]

IdleRequest ==
    [tool |-> "", account |-> NoAccount, pc |-> "idle", email |-> NoAccount,
     exists |-> FALSE, auth |-> 0, authOf |-> NoAccount,
     accountEmail |-> NoAccount, sent |-> FALSE, isError |-> FALSE, text |-> ""]

\* the handler returns its result: isError is set by the catch block only
Reply(p, r, isError, text) ==
    req' = [req EXCEPT ![p] =
               [r EXCEPT !.pc = "done", !.isError = isError, !.text = text]]

\* --- AccountManager ------------------------------------------------------
accountExists(a) == a \in records

getDefaultAccount == defaultAccount

\* remove: the default pointer is cleared when it named the removed record
DefaultAfterRemove_Kept(a) == defaultAccount

DefaultAfterRemove(a) ==
    IF defaultAccount = a THEN NoAccount ELSE defaultAccount

\* remove, on a record that exists: delete it, clear the pointer
removeAccount(a) ==
    /\ records' = records \ {a}
    /\ defaultAccount' = DefaultAfterRemove(a)
    /\ cred' = [cred EXCEPT ![a] = NoCredential]
    /\ UNCHANGED <<revoked, refreshLock, refreshCalls, credWrites, issued>>

\* setDefault, on a record that exists
setDefaultAccount(a) ==
    /\ defaultAccount' = a
    /\ UNCHANGED <<records, cred, revoked, refreshLock, refreshCalls,
                   credWrites, issued>>

\* add, once the consent flow has produced the initial credential: the
\* record is created; the default pointer is left alone
createAccount(a) ==
    /\ records' = records \cup {a}
    /\ issued' = [issued EXCEPT ![a] = @ + 1]
    /\ cred' = [cred EXCEPT ![a] = [token |-> issued[a] + 1, expired |-> FALSE]]
    /\ revoked' = revoked \ {a}
    /\ UNCHANGED <<defaultAccount, refreshLock, refreshCalls, credWrites>>

\* resolve: the refresh-and-persist sequence is serialized per address
RefreshSerialized_Off(a) == TRUE

RefreshSerialized(a) == refreshLock[a] = 0

\* resolve, up to its first suspension: an unexpired token is returned as
\* it is, an expired one starts the refresh call under the address's lock
getAccountAuth(p) ==
    LET a == req[p].email IN
    /\ req[p].pc = "getAccountAuth"
    /\ IF ~accountExists(a)
       THEN /\ Reply(p, req[p], TRUE, "NotFoundError")
            /\ UNCHANGED storeVars
       ELSE /\ RefreshSerialized(a)
            /\ IF cred[a].expired
               THEN /\ refreshLock' = [refreshLock EXCEPT ![a] = p]
                    /\ refreshCalls' = [refreshCalls EXCEPT ![a] = @ + 1]
                    /\ req' = [req EXCEPT ![p].pc = "refresh"]
                    /\ UNCHANGED <<records, defaultAccount, cred, revoked,
                                   credWrites, issued>>
               ELSE /\ req' = [req EXCEPT ![p].pc = "resolved",
                                          ![p].auth = cred[a].token]
                    /\ UNCHANGED storeVars
    /\ UNCHANGED <<composeVars, extractVars>>

\* the provider answers the refresh call: a rejected refresh token is a
\* ReauthRequiredError; a new access token overwrites the credential field
refreshReturns(p) ==
    LET a == req[p].email IN
    /\ req[p].pc = "refresh"
    /\ IF a \in revoked
       THEN /\ Reply(p, req[p], TRUE, "ReauthRequiredError")
            /\ refreshLock' = [refreshLock EXCEPT ![a] = 0]
            /\ UNCHANGED <<records, defaultAccount, cred, revoked,
                           refreshCalls, credWrites, issued>>
       ELSE IF ~accountExists(a)
       THEN /\ Reply(p, req[p], TRUE, "NotFoundError")
            /\ refreshLock' = [refreshLock EXCEPT ![a] = 0]
            /\ issued' = [issued EXCEPT ![a] = @ + 1]
            /\ UNCHANGED <<records, defaultAccount, cred, revoked,
                           refreshCalls, credWrites>>
       ELSE /\ issued' = [issued EXCEPT ![a] = @ + 1]
            /\ cred' = [cred EXCEPT ![a] =
                           [token |-> issued[a] + 1, expired |-> FALSE]]
            /\ credWrites' = [credWrites EXCEPT ![a] = @ + 1]
            /\ req' = [req EXCEPT ![p].pc = "persistCredential",
                                  ![p].auth = issued[a] + 1]
            /\ UNCHANGED <<records, defaultAccount, revoked, refreshLock,
                           refreshCalls>>
    /\ UNCHANGED <<composeVars, extractVars>>

\* the credential is durable: the lock is released, the handle returned
persistCredentialReturns(p) ==
    /\ req[p].pc = "persistCredential"
    /\ refreshLock' = [refreshLock EXCEPT ![req[p].email] = 0]
    /\ req' = [req EXCEPT ![p].pc = "resolved"]
    /\ UNCHANGED <<records, defaultAccount, cred, revoked, refreshCalls,
                   credWrites, issued>>
    /\ UNCHANGED <<composeVars, extractVars>>

\* --- getGmailClient and the mail tools -----------------------------------
\* the account getGmailClient works for; NoAccount when it throws
getGmailClient_DefaultFirst(account) ==
    IF getDefaultAccount # NoAccount THEN getDefaultAccount ELSE account

getGmailClientEmail(account) ==
    IF account = NoAccount THEN getDefaultAccount ELSE account

\* a mail tool is invoked: getGmailClient picks the account and either
\* throws or calls getAccountAuth(email).  The six mail handlers differ
\* only in the client method they go on to call, so a request is marked
\* as a mail request without the name of its tool.
MailToolCall(p, account) ==
    LET e == getGmailClientEmail(account)
        r == [req[p] EXCEPT !.tool = "mail", !.account = account, !.email = e]
    IN
    /\ req[p].pc = "idle"
    /\ IF e = NoAccount
       THEN Reply(p, r, TRUE, "No account specified and no default account set")
       ELSE req' = [req EXCEPT ![p] =
                       [r EXCEPT !.pc = "getAccountAuth", !.authOf = e]]
    /\ UNCHANGED <<storeVars, composeVars, extractVars>>

send_email(p) == \E account \in Addresses \cup {NoAccount} : MailToolCall(p, account)

reply_to_email(p) == \E account \in Addresses \cup {NoAccount} : MailToolCall(p, account)

search_emails(p) == \E account \in Addresses \cup {NoAccount} : MailToolCall(p, account)

read_email(p) == \E account \in Addresses \cup {NoAccount} : MailToolCall(p, account)

mark_as_read(p) == \E account \in Addresses \cup {NoAccount} : MailToolCall(p, account)

read_email_light(p) == \E account \in Addresses \cup {NoAccount} : MailToolCall(p, account)

\* new GmailClient(auth, email), then the handler calls the client's
\* method, which runs up to its transport call
clientCall(p) ==
    /\ req[p].pc = "resolved"
    /\ req' = [req EXCEPT ![p].pc = "transport",
                          ![p].accountEmail = req[p].email,
                          ![p].sent = TRUE]
    /\ UNCHANGED <<storeVars, composeVars, extractVars>>

\* the transport answers, or fails and the handler's catch block replies
transportReturns(p) ==
    /\ req[p].pc = "transport"
    /\ \E ok \in BOOLEAN :
          Reply(p, req[p], ~ok, IF ok THEN "ok" ELSE "TransportError")
    /\ UNCHANGED <<storeVars, composeVars, extractVars>>

\* --- the account tools ---------------------------------------------------
\* add_account is invoked and awaits accountExists(email)
add_account(p) ==
    /\ req[p].pc = "idle"
    /\ \E a \in Addresses :
          req' = [req EXCEPT ![p] =
                     [req[p] EXCEPT !.tool = "add_account", !.email = a,
                                    !.exists = accountExists(a),
                                    !.pc = "accountExists"]]
    /\ UNCHANGED <<storeVars, composeVars, extractVars>>

\* accountExists has answered: an existing account is reported in a plain
\* result; otherwise addAccount(email) runs up to the consent flow
addAccount(p) ==
    /\ req[p].pc = "accountExists"
    /\ IF req[p].exists
       THEN Reply(p, req[p], FALSE, "already exists")
       ELSE IF accountExists(req[p].email)
       THEN Reply(p, req[p], TRUE, "ConflictError")
       ELSE req' = [req EXCEPT ![p].pc = "consent"]
    /\ UNCHANGED <<storeVars, composeVars, extractVars>>

\* the consent flow ends: with a credential, or refused
consentReturns(p) ==
    /\ req[p].pc = "consent"
    /\ \/ /\ createAccount(req[p].email)
          /\ req' = [req EXCEPT ![p].pc = "persist"]
       \/ /\ Reply(p, req[p], TRUE, "consent refused")
          /\ UNCHANGED storeVars
    /\ UNCHANGED <<composeVars, extractVars>>

\* remove_account is invoked: removeAccount(email) runs up to its persist
remove_account(p) ==
    /\ req[p].pc = "idle"
    /\ \E a \in Addresses :
          LET r == [req[p] EXCEPT !.tool = "remove_account", !.email = a]
          IN IF accountExists(a)
             THEN /\ removeAccount(a)
                  /\ req' = [req EXCEPT ![p] = [r EXCEPT !.pc = "persist"]]
             ELSE /\ Reply(p, r, TRUE, "NotFoundError")
                  /\ UNCHANGED storeVars
    /\ UNCHANGED <<composeVars, extractVars>>

\* set_default_account is invoked: setDefaultAccount(email) runs up to its
\* persist
set_default_account(p) ==
    /\ req[p].pc = "idle"
    /\ \E a \in Addresses :
          LET r == [req[p] EXCEPT !.tool = "set_default_account", !.email = a]
          IN IF accountExists(a)
             THEN /\ setDefaultAccount(a)
                  /\ req' = [req EXCEPT ![p] = [r EXCEPT !.pc = "persist"]]
             ELSE /\ Reply(p, r, TRUE, "NotFoundError")
                  /\ UNCHANGED storeVars
    /\ UNCHANGED <<composeVars, extractVars>>

\* the store is durable: the account tool reports success
persistReturns(p) ==
    /\ req[p].pc = "persist"
    /\ Reply(p, req[p], FALSE, "ok")
    /\ UNCHANGED <<storeVars, composeVars, extractVars>>

(***************************************************************************)
(* The send requests the model draws.  cc and bcc are optional: an absent  *)
(* list and an empty one are both <<>> (cc?.length is falsy for both).     *)
(***************************************************************************)
\* ' ', 'A', '~'; LF, DEL; e-acute, euro sign; a high and a low surrogate
SubjectUnits == {32, 65, 126, 10, 127, 233, 8364, 55357, 56832}

RECURSIVE SeqsUpTo(_, _)
SeqsUpTo(S, n) ==
    IF n = 0 THEN {<<>>}
    ELSE LET shorter == SeqsUpTo(S, n - 1)
         IN shorter \cup {Append(s, x) : s \in {t \in shorter : Len(t) = n - 1}, x \in S}

Subjects == SeqsUpTo(SubjectUnits, MaxSubjectLen)

AddrA == <<97, 64, 120, 46, 105, 111>>   \* "a@x.io"
AddrB == <<98, 64, 121, 46, 105, 111>>   \* "b@y.io"
AddrC == <<99, 64, 122, 46, 105, 111>>   \* "c@z.io"

RecipientLists == {<<>>, <<AddrA>>, <<AddrA, AddrB>>}
OptionalLists == {<<>>, <<AddrC>>, <<AddrC, AddrB>>}
\* "", "hi", and a body with a blank line and a header-like line in it
Bodies == {<<>>, <<104, 105>>, <<120>> \o CRLF \o CRLF \o CcPrefix \o <<121>>}


(***************************************************************************)
(* The messages the model draws.  Every tree follows the MimeNode data     *)
(* model: only multipart nodes have parts, only leaves have data, and the  *)
(* data is base64url of the UTF-8 content, as users.messages.get sends it. *)
(***************************************************************************)
Leaf(mimeType, content) ==
    [mimeType |-> mimeType,
     data |-> Base64Encode(Utf8Encode(content), TRUE),
     parts |-> <<>>]

\* "multipart/mixed"
Multipart(parts) ==
    [mimeType |-> MultipartPrefix \o <<109, 105, 120, 101, 100>>,
     data |-> <<>>,
     parts |-> parts]

PlainContent == <<104, 105>>   \* "hi"
\* <b>A&amp;B</b><a href="https://a.io">x</a>
HtmlA ==
    <<60, 98, 62, 65, 38, 97, 109, 112, 59, 66, 60, 47, 98, 62, 60, 97, 32,
      104, 114, 101, 102, 61, 34, 104, 116, 116, 112, 115, 58, 47, 47, 97, 46,
      105, 111, 34, 62, 120, 60, 47, 97, 62>>
\* <a href='https://b.io'>y</a><A HREF="https://a.io">z</a>
HtmlB ==
    <<60, 97, 32, 104, 114, 101, 102, 61, 39, 104, 116, 116, 112, 115, 58, 47,
      47, 98, 46, 105, 111, 39, 62, 121, 60, 47, 97, 62, 60, 65, 32, 72, 82,
      69, 70, 61, 34, 104, 116, 116, 112, 115, 58, 47, 47, 97, 46, 105, 111,
      34, 62, 122, 60, 47, 97, 62>>
\* <style>p{}</style><br>
HtmlBlank ==
    <<60, 115, 116, 121, 108, 101, 62, 112, 123, 125, 60, 47, 115, 116, 121,
      108, 101, 62, 60, 98, 114, 62>>

Leaves ==
    {Leaf(TextPlain, PlainContent),
     [mimeType |-> TextPlain, data |-> <<>>, parts |-> <<>>],
     Leaf(TextHtml, HtmlA),
     Leaf(TextHtml, HtmlB),
     Leaf(TextHtml, HtmlBlank),
     Leaf(<<105, 109, 97, 103, 101, 47, 112, 110, 103>>, <<137, 80, 78, 71>>)}

\* the trees of exactly n nodes, and the sequences of trees of n nodes in all
RECURSIVE TreesOfSize(_)
RECURSIVE ForestsOfSize(_)
TreesOfSize(n) ==
    (IF n = 1 THEN Leaves ELSE {}) \cup {Multipart(f) : f \in ForestsOfSize(n - 1)}

ForestsOfSize(n) ==
    IF n = 0 THEN {<<>>}
    ELSE UNION {{<<t>> \o f : t \in TreesOfSize(k), f \in ForestsOfSize(n - k)} :
                   k \in 1..n}

Trees == UNION {TreesOfSize(n) : n \in 1..MaxNodes}

(***************************************************************************)
(* The anchors the model draws: an HTML leaf with one anchor, whose href   *)
(* is a base and at most MaxParams query parameters.                       *)
(***************************************************************************)
\* url, u, redirect, destination, target, link, and q, which is none of them
ParamNames ==
    {RedirectParams[i] : i \in 1..Len(RedirectParams)} \cup {<<113>>}

ParamValues ==
    {<<104, 116, 116, 112, 115, 37, 51, 65, 37, 50, 70, 37, 50, 70, 114, 46,
       105, 111, 37, 50, 70, 112>>,            \* https%3A%2F%2Fr.io%2Fp
     <<104, 116, 116, 112, 58, 47, 47, 115, 46, 105, 111>>,    \* http://s.io
     <<120>>,                                                   \* x
     <<104, 116, 116, 112, 115, 37, 51, 65, 37, 50, 70, 37, 50, 70, 114, 46,
       105, 111, 37, 50, 70, 49, 48, 48, 37, 50, 53>>, \* https%3A%2F%2Fr.io%2F100%25
     <<104, 116, 116, 112, 115, 58, 47, 47, 114, 46, 105, 111, 47, 37, 50, 53,
       52, 49>>}                                       \* https://r.io/%2541

QueryPairs == {n \o <<61>> \o v : n \in ParamNames, v \in ParamValues}

RECURSIVE QueriesUpTo(_)
QueriesUpTo(n) ==
    IF n = 0 THEN {<<>>}
    ELSE QueriesUpTo(n - 1)
           \cup {<<63>> \o pr : pr \in QueryPairs}
           \cup {q \o <<38>> \o pr : q \in QueriesUpTo(n - 1) \ {<<>>}, pr \in QueryPairs}

\* https://t.io/c, http://t.io, and https:// with no host
WebBases ==
    {<<104, 116, 116, 112, 115, 58, 47, 47, 116, 46, 105, 111, 47, 99>>,
     <<104, 116, 116, 112, 58, 47, 47, 116, 46, 105, 111>>,
     <<104, 116, 116, 112, 115, 58, 47, 47>>}

\* mailto:m@t.io, javascript:x, #top, ftp://t.io/f, /rel
OtherHrefs ==
    {<<109, 97, 105, 108, 116, 111, 58, 109, 64, 116, 46, 105, 111>>,
     <<106, 97, 118, 97, 115, 99, 114, 105, 112, 116, 58, 120>>,
     <<35, 116, 111, 112>>,
     <<102, 116, 112, 58, 47, 47, 116, 46, 105, 111, 47, 102>>,
     <<47, 114, 101, 108>>}

Hrefs == {b \o q : b \in WebBases, q \in QueriesUpTo(MaxParams)} \cup OtherHrefs

\* <a href="HREF">go</a>
Anchor(href) ==
    <<60, 97, 32, 104, 114, 101, 102, 61, 34>> \o href
        \o <<34, 62, 103, 111, 60, 47, 97, 62>>

ComposeIdle ==
    /\ params = [to |-> <<>>, subject |-> <<>>, body |-> <<>>, cc |-> <<>>, bcc |-> <<>>]
    /\ email = <<>>
    /\ encodedEmail = <<>>
    /\ sendPc = "idle"

ExtractIdle ==
    /\ payload = [absent |-> TRUE]
    /\ body = <<>>
    /\ links = <<>>
    /\ msgPc = "idle"

ServerIdle ==
    /\ records = {}
    /\ defaultAccount = NoAccount
    /\ cred = [a \in Addresses |-> NoCredential]
    /\ revoked = {}
    /\ refreshLock = [a \in Addresses |-> 0]
    /\ refreshCalls = [a \in Addresses |-> 0]
    /\ credWrites = [a \in Addresses |-> 0]
    /\ issued = [a \in Addresses |-> 0]
    /\ req = [p \in Requests |-> IdleRequest]

ComposeInit ==
    /\ ExtractIdle
    /\ ServerIdle
    /\ params \in [to : RecipientLists, subject : Subjects, body : Bodies,
                   cc : OptionalLists, bcc : OptionalLists]
    /\ email = <<>>
    /\ encodedEmail = <<>>
    /\ sendPc = "called"

ComposeNext == sendEmail

SpecCompose == ComposeInit /\ [][ComposeNext]_vars

MimeInit ==
    /\ ComposeIdle
    /\ ServerIdle
    /\ payload \in Trees \cup {[absent |-> TRUE]}
    /\ body = <<>>
    /\ links = <<>>
    /\ msgPc = "fetched"

MimeNext == getMessageLight

SpecMime == MimeInit /\ [][MimeNext]_vars

UrlInit ==
    /\ ComposeIdle
    /\ ServerIdle
    /\ payload \in {Leaf(TextHtml, Anchor(h)) : h \in Hrefs}
    /\ body = <<>>
    /\ links = <<>>
    /\ msgPc = "fetched"

UrlNext == getMessageLight

SpecUrl == UrlInit /\ [][UrlNext]_vars

(***************************************************************************)
(* The server: any valid store, and MaxRequests tool invocations.          *)
(***************************************************************************)
ServerInit ==
    /\ ComposeIdle
    /\ ExtractIdle
    /\ records \in SUBSET Addresses
    /\ defaultAccount \in records \cup {NoAccount}
    /\ \E expired \in SUBSET records :
          cred = [a \in Addresses |->
                     IF a \in records
                     THEN [token |-> 1, expired |-> a \in expired]
                     ELSE NoCredential]
    /\ revoked \in SUBSET records
    /\ refreshLock = [a \in Addresses |-> 0]
    /\ refreshCalls = [a \in Addresses |-> 0]
    /\ credWrites = [a \in Addresses |-> 0]
    /\ issued = [a \in Addresses |-> IF a \in records THEN 1 ELSE 0]
    /\ req = [p \in Requests |-> IdleRequest]

ResolveNext ==
    \E p \in Requests :
        \/ send_email(p)
        \/ reply_to_email(p)
        \/ search_emails(p)
        \/ read_email(p)
        \/ mark_as_read(p)
        \/ read_email_light(p)
        \/ getAccountAuth(p)
        \/ refreshReturns(p)
        \/ persistCredentialReturns(p)
        \/ clientCall(p)
        \/ transportReturns(p)

ServerNext ==
    \/ ResolveNext
    \/ \E p \in Requests :
        \/ add_account(p)
        \/ addAccount(p)
        \/ consentReturns(p)
        \/ remove_account(p)
        \/ set_default_account(p)
        \/ persistReturns(p)

\* mail operations only: the account store changes by refreshes alone
SpecResolve == ServerInit /\ [][ResolveNext]_vars

SpecServer == ServerInit /\ [][ServerNext]_vars

(***************************************************************************)
(* Properties of message composition.                                      *)
(***************************************************************************)
\* line is prefix followed by the addresses of list, joined by ", "
AddressLine(line, prefix, list) ==
    /\ StartsWith(line, prefix)
    /\ IF list = <<>> THEN Len(line) = Len(prefix)
       ELSE Split(Drop(line, Len(prefix) + 1), CommaSpace) = list

\* the header lines of the composed message: what precedes the first empty line
HeaderLines == Split(SubSeq(email, 1, IndexFrom(email, CRLF \o CRLF, 1) - 1), CRLF)

\* C9: the composed message is, joined by CRLF: the To line listing all
\* recipients, the Subject line, a Cc line iff cc is non-empty, a Bcc line iff
\* bcc is non-empty, the fixed Content-Type line, an empty line, and then the
\* body verbatim; there is no other header line.
C9_HeaderOrder ==
    sendPc = "sent" =>
        LET cut == IndexFrom(email, CRLF \o CRLF, 1)
            hasCc == params.cc # <<>>
            hasBcc == params.bcc # <<>>
            n == 3 + (IF hasCc THEN 1 ELSE 0) + (IF hasBcc THEN 1 ELSE 0)
        IN /\ cut > 0
           /\ Drop(email, cut + 4) = params.body
           /\ Len(HeaderLines) = n
           /\ AddressLine(HeaderLines[1], ToPrefix, params.to)
           /\ StartsWith(HeaderLines[2], SubjectPrefix)
           /\ hasCc => AddressLine(HeaderLines[3], CcPrefix, params.cc)
           /\ hasBcc => AddressLine(HeaderLines[n - 1], BccPrefix, params.bcc)
           /\ HeaderLines[n] = ContentTypeLine

\* a message with two recipients, cc, bcc and a body that holds a blank line
C9_Witness ==
    /\ sendPc = "sent"
    /\ Len(params.to) = 2
    /\ params.cc # <<>>
    /\ params.bcc # <<>>
    /\ IndexFrom(params.body, CRLF \o CRLF, 1) > 0

\* the value of the Subject header of the composed message
SubjectValue == Drop(Split(email, CRLF)[2], Len(SubjectPrefix) + 1)

\* v is one RFC 2047 encoded word "=?UTF-8?B?<base64>?="
IsEncodedWord(v) ==
    /\ Len(v) >= Len(EncodedWordPrefix) + Len(EncodedWordSuffix)
    /\ StartsWith(v, EncodedWordPrefix)
    /\ Drop(v, Len(v) - 1) = EncodedWordSuffix
    /\ \A i \in (Len(EncodedWordPrefix) + 1)..(Len(v) - 2) :
           \/ v[i] = 61
           \/ Base64Value(v[i]) >= 0 /\ v[i] # 45 /\ v[i] # 95

\* what a reader of the header decodes the encoded word to
DecodeEncodedWord(v) ==
    Utf8Decode(Base64Decode(SubSeq(v, Len(EncodedWordPrefix) + 1, Len(v) - 2)))

\* s with every unpaired surrogate code unit replaced by U+FFFD
Scrub(s) ==
    [i \in 1..Len(s) |->
        IF \/ IsHighSurrogate(s[i]) /\ ~(i < Len(s) /\ IsLowSurrogate(s[i + 1]))
           \/ IsLowSurrogate(s[i]) /\ ~(i > 1 /\ IsHighSurrogate(s[i - 1]))
        THEN 65533 ELSE s[i]]

\* C10 as stated: a printable-ASCII subject is the header value unchanged; any
\* other subject becomes one encoded word whose decoding is the subject.
C10_RoundTripAnySubject ==
    sendPc = "sent" =>
        IF IsPrintableAscii(params.subject) THEN SubjectValue = params.subject
        ELSE /\ IsEncodedWord(SubjectValue)
             /\ DecodeEncodedWord(SubjectValue) = params.subject

\* C10 as amended: a printable-ASCII subject is the header value unchanged; any
\* other subject becomes one encoded word whose decoding is the subject with
\* each unpaired surrogate code unit replaced by U+FFFD, which is the subject
\* itself when it has no unpaired surrogate.
C10_RoundTrip ==
    sendPc = "sent" =>
        IF IsPrintableAscii(params.subject) THEN SubjectValue = params.subject
        ELSE /\ IsEncodedWord(SubjectValue)
             /\ DecodeEncodedWord(SubjectValue) = Scrub(params.subject)
             /\ Scrub(params.subject) = params.subject
                    => DecodeEncodedWord(SubjectValue) = params.subject

\* a subject with a four-byte character (a surrogate pair) has been encoded
C10_Witness ==
    /\ sendPc = "sent"
    /\ Len(params.subject) = 2
    /\ IsHighSurrogate(params.subject[1])
    /\ IsLowSurrogate(params.subject[2])
    /\ IsEncodedWord(SubjectValue)

(***************************************************************************)
(* Properties of message extraction.                                       *)
(***************************************************************************)
\* whether the tree holds a text/plain or text/html leaf with payload data
RECURSIVE HasTextLeaf(_)
HasTextLeaf(node) ==
    /\ ~IsAbsent(node)
    /\ \/ node.parts = <<>> /\ (IsPlainWithData(node) \/ IsHtmlWithData(node))
       \/ \E i \in 1..Len(node.parts) : HasTextLeaf(node.parts[i])

\* C5: extractPlainText returns the empty string if and only if the tree holds
\* no text/plain leaf and no text/html leaf, a root that is a single text/html
\* leaf included.
C5_EmptyIffNoTextLeaf ==
    msgPc = "returned" => (body = <<>> <=> ~HasTextLeaf(payload))

\* the decoded contents of the text/plain leaves with payload data of the tree
RECURSIVE PlainTexts(_)
PlainTexts(node) ==
    IF IsAbsent(node) THEN {}
    ELSE (IF node.parts = <<>> /\ IsPlainWithData(node)
          THEN {DecodeData(node.data)} ELSE {})
         \cup UNION {PlainTexts(node.parts[i]) : i \in 1..Len(node.parts)}

\* C6: when the tree holds a text/plain leaf with payload data at any depth,
\* extractPlainText returns the decoded content of a text/plain leaf, never
\* text derived from HTML, wherever the HTML leaves and the nested multipart
\* nodes sit.
C6_PlainTextWins ==
    (msgPc = "returned" /\ PlainTexts(payload) # {}) => body \in PlainTexts(payload)

\* the contents of the text/html leaves of the tree in document order: a node
\* before its parts, a part and all below it before the next part
RECURSIVE Flatten(_)
Flatten(seqs) == IF seqs = <<>> THEN <<>> ELSE Head(seqs) \o Flatten(Tail(seqs))

RECURSIVE HtmlLeaves(_)
HtmlLeaves(node) ==
    IF IsAbsent(node) THEN <<>>
    ELSE (IF node.parts = <<>> /\ IsHtmlWithData(node)
          THEN <<DecodeData(node.data)>> ELSE <<>>)
         \o Flatten([i \in 1..Len(node.parts) |-> HtmlLeaves(node.parts[i])])

\* the links of the anchors of one HTML text, in order, repeats included
LinksOfHtml(html) ==
    LET hrefs == SelectSeq(HrefsFrom(html, 1),
                           LAMBDA h : IsWebLink(h) /\ cleanTrackingUrl(h).ok)
    IN [i \in 1..Len(hrefs) |-> cleanTrackingUrl(hrefs[i]).value]

\* every link of every text/html leaf, in document order, repeats included
AllLinks(node) ==
    LET leaves == HtmlLeaves(node)
    IN Flatten([i \in 1..Len(leaves) |-> LinksOfHtml(leaves[i])])

\* seq without the entries that repeat an earlier one
FirstOccurrences(seq) ==
    LET firsts == {i \in 1..Len(seq) : \A j \in 1..(i - 1) : seq[j] # seq[i]}
        nth(n) == CHOOSE i \in firsts : Cardinality({j \in firsts : j <= i}) = n
    IN [n \in 1..Cardinality(firsts) |-> seq[nth(n)]]

\* C7: extractLinks visits every text/html leaf of the tree, whether or not
\* there is a text/plain part, and returns the links without duplicates, each
\* at the place of its first occurrence in document order.
C7_LinksUniqueInDocumentOrder ==
    msgPc = "returned" =>
        /\ links = FirstOccurrences(AllLinks(payload))
        /\ \A i, j \in 1..Len(links) : links[i] = links[j] => i = j

\* a tree with a text/plain leaf and two text/html leaves at different depths
\* that share a link, which is returned once
C7_Witness ==
    /\ msgPc = "returned"
    /\ PlainTexts(payload) # {}
    /\ Len(HtmlLeaves(payload)) = 2
    /\ \E i \in 1..Len(payload.parts) :
           IsMultipart(payload.parts[i]) /\ HtmlLeaves(payload.parts[i]) # <<>>
    /\ \E i \in 1..Len(payload.parts) : IsHtmlWithData(payload.parts[i])
    /\ Len(AllLinks(payload)) > Len(links)
    /\ Len(links) = 2

\* the href of the one anchor of an HTML leaf
TheHref == HrefsFrom(DecodeData(payload.data), 1)[1]

\* the decoded value of the first parameter, in priority order, that is present
\* and begins with http:// or https://; the href itself when there is none
Destination(href) ==
    LET at == {i \in 1..Len(RedirectParams) : IsDestination(href, RedirectParams[i])}
    IN IF at = {} THEN href
       ELSE SearchParamsGet(UrlQuery(href), RedirectParams[Least(at)]).value

\* C8: an http or https href that parses as a URL yields the decoded value of
\* the first destination parameter in priority order, or itself when no
\* parameter qualifies; a mailto:, javascript: or # href, an href of another
\* scheme and an href that does not parse yield nothing.
C8_LinkIsDestination ==
    msgPc = "returned" =>
        links = IF /\ StartsWith(TheHref, HttpScheme) \/ StartsWith(TheHref, HttpsScheme)
                   /\ UrlParses(TheHref)
                THEN <<Destination(TheHref)>>
                ELSE <<>>

(***************************************************************************)
(* Properties of the account store and of account selection.               *)
(***************************************************************************)
DefaultIsRecorded == defaultAccount = NoAccount \/ defaultAccount \in records

\* the record the default pointer names goes away in this step
DefaultRemoved == defaultAccount \in records /\ defaultAccount \notin records'

\* C1: whatever add, remove and setDefault operations have run, succeeding or
\* failing, the default pointer is unset or names an account that has a
\* record; a step that removes the record of the default account leaves the
\* pointer unset.
C1_DefaultPointer ==
    /\ []DefaultIsRecorded
    /\ [][DefaultRemoved => defaultAccount' = NoAccount]_vars

\* a set_default_account and a remove_account of the same address both
\* succeeded, the removal last: the pointer is unset again
C1_Witness ==
    \E p, q \in Requests :
        /\ req[p].tool = "set_default_account"
        /\ req[p].pc = "done" /\ ~req[p].isError
        /\ req[q].tool = "remove_account"
        /\ req[q].pc = "done" /\ ~req[q].isError
        /\ req[q].email = req[p].email
        /\ req[p].email \notin records
        /\ defaultAccount = NoAccount

\* request p came out of getAccountAuth with an authorization handle
HoldsHandle(p) ==
    /\ req[p].tool = "mail"
    /\ req[p].pc \in {"resolved", "transport", "done"}
    /\ req[p].auth # 0

AddFindsRecord(p) == req[p].pc = "accountExists" /\ req'[p].pc = "done"

\* C3: an add_account for an address that already has a record, seen by the
\* handler's own look or by a second add that raced it, is answered as a
\* failure and leaves the records and the default pointer as they were.
C3_AddExistingFails ==
    [][\A p \in Requests :
          AddFindsRecord(p) =>
              /\ req'[p].isError
              /\ records' = records
              /\ defaultAccount' = defaultAccount]_vars

\* what holds of a mail request at any time
AccountSelected(p) ==
    /\ req[p].account # NoAccount => req[p].email = req[p].account
    /\ req[p].email = NoAccount =>
          /\ req[p].pc = "done" /\ req[p].isError
          /\ req[p].authOf = NoAccount
          /\ req[p].auth = 0
          /\ ~req[p].sent
    /\ req[p].sent =>
          /\ req[p].accountEmail = req[p].email
          /\ req[p].accountEmail = req[p].authOf
          /\ req[p].accountEmail # NoAccount

\* a mail request without an account argument starts in this step
DefaultSelected(p) ==
    req[p].pc = "idle" /\ req'[p].tool = "mail" /\ req'[p].account = NoAccount
        => req'[p].email = defaultAccount

\* C4: a mail operation works for the account its caller gave, whatever the
\* default pointer, and for the default account of the moment when the
\* caller gave none; with no account and no default it fails before any
\* credential is resolved and before any transport call; the client that
\* makes the transport call reports the address whose credential was resolved.
C4_AccountSelection ==
    /\ [](\A p \in Requests : req[p].tool = "mail" => AccountSelected(p))
    /\ [][\A p \in Requests : DefaultSelected(p)]_vars

\* one request went out for the account its caller named, which is not the
\* default; another, given no account, went out for the default
C4_Witness ==
    \E p, q \in Requests :
        /\ req[p].tool = "mail" /\ req[p].sent
        /\ req[p].account # NoAccount
        /\ req[p].account # defaultAccount
        /\ defaultAccount # NoAccount
        /\ req[p].accountEmail = req[p].account
        /\ req[q].tool = "mail" /\ req[q].sent
        /\ req[q].account = NoAccount
        /\ req[q].accountEmail = defaultAccount

=============================================================================
